---- MODULE Spec2Model ----
(***************************************************************************)
(* Audio-input subsystem of the tauri template (src-tauri/src/lib.rs):     *)
(* device enumeration, start/stop/get_volume on the two volume cells of    *)
(* AudioState, and the capture callbacks of the streams that               *)
(* start_monitoring opens.                                                 *)
(*                                                                         *)
(* Numbers.  An f32 is modelled as an integer count of units of 1/Scale,   *)
(* with Scale = i16::MAX, so that the i16 normalisation s / 32767 is       *)
(* exact; every division and the square root round to nearest, as IEEE     *)
(* arithmetic does.  NaN is a separate value.  A percentage returned by    *)
(* get_volume is in units of 1/Scale percent.                              *)
(***************************************************************************)
EXTENDS Integers, Sequences, FiniteSets, TLC

VARIABLES state, devices, streams, session, result, threads

vars == <<state, devices, streams, session, result, threads>>

(***************************************************************************)
(* Bounds of the model.                                                    *)
(***************************************************************************)
MaxStreams == 2     \* successful starts in one run
MaxBlock == 2       \* samples in one capture block
MaxAudioThreads == 1    \* streams whose audio threads are followed step by step

(***************************************************************************)
(* f32 arithmetic                                                          *)
(***************************************************************************)
Scale == 32767
I16_MAX == 32767
U16_MAX == 65535
NaN == -99999999

Min(a, b) == IF a <= b THEN a ELSE b

\* n / d rounded to nearest (d > 0)
DivRound(n, d) == (n + d \div 2) \div d

RECURSIVE SqrtSearch(_, _, _)
SqrtSearch(x, lo, hi) ==
    IF lo >= hi THEN lo
    ELSE LET mid == (lo + hi + 1) \div 2
         IN  IF mid * mid <= x THEN SqrtSearch(x, mid, hi)
                               ELSE SqrtSearch(x, lo, mid - 1)

\* f32::sqrt of x/Scale, in units of 1/Scale: sqrt(x * Scale), to nearest
Sqrt(x) ==
    LET y == x * Scale
        r == SqrtSearch(y, 0, 46340)
    IN  IF y - r * r > r THEN r + 1 ELSE r

\* s * s for an f32 s
Square(s) == DivRound(s * s, Scale)

RECURSIVE SumOfSquares(_)
SumOfSquares(samples) ==
    IF samples = <<>> THEN 0
    ELSE Square(Head(samples)) + SumOfSquares(Tail(samples))

\* fn calculate_rms(samples: &[f32]) -> f32
calculate_rms(samples) ==
    IF Len(samples) = 0 THEN 0
    ELSE IF \E i \in 1..Len(samples) : samples[i] = NaN THEN NaN
    ELSE Sqrt(DivRound(SumOfSquares(samples), Len(samples)))

\* the per-sample conversions of the three capture callbacks
NormalizeSample(sample_format, s) ==
    CASE sample_format = "F32" -> s
      [] sample_format = "I16" -> DivRound(s * Scale, I16_MAX)
      [] sample_format = "U16" -> DivRound(s * Scale, U16_MAX) * 2 - Scale

\* a display mapping that forgets the cap: vol * 100.0
PercentageUncapped(vol) == IF vol = NaN THEN NaN ELSE vol * 100

\* (vol * 100.0).min(100.0); f32::min returns the other operand for a NaN
Percentage(vol) ==
    IF vol = NaN THEN 100 * Scale ELSE Min(vol * 100, 100 * Scale)

(***************************************************************************)
(* Device ids.  A String is a sequence of one-character strings.           *)
(***************************************************************************)
Digits == <<"0", "1", "2", "3", "4", "5", "6", "7", "8", "9">>
InputPrefix == <<"i", "n", "p", "u", "t", "_">>
NoIndex == -1       \* None of an Option<usize>

DigitValue(c) ==
    IF \E d \in 1..10 : Digits[d] = c
    THEN (CHOOSE d \in 1..10 : Digits[d] = c) - 1
    ELSE NoIndex

\* format!("{}", index) for a usize
RECURSIVE FormatUsize(_)
FormatUsize(n) ==
    IF n < 10 THEN <<Digits[n + 1]>>
    ELSE Append(FormatUsize(n \div 10), Digits[(n % 10) + 1])

\* format!("input_{}", index)
FormatId(index) == InputPrefix \o FormatUsize(index)

\* str::strip_prefix("input_"): Some(rest) or None
StripPrefix(s) ==
    IF Len(s) >= Len(InputPrefix) /\ SubSeq(s, 1, Len(InputPrefix)) = InputPrefix
    THEN [some |-> TRUE, rest |-> SubSeq(s, Len(InputPrefix) + 1, Len(s))]
    ELSE [some |-> FALSE, rest |-> <<>>]

\* the digits of a usize, most significant first, folded as from_str_radix does
RECURSIVE ParseDigits(_, _)
ParseDigits(s, acc) ==
    IF s = <<>> THEN acc
    ELSE IF DigitValue(Head(s)) = NoIndex THEN NoIndex
    ELSE ParseDigits(Tail(s), acc * 10 + DigitValue(Head(s)))

\* a parse that takes the empty string for 0
ParseUsizeEmptyZero(s) ==
    ParseDigits(IF s # <<>> /\ Head(s) = "+" THEN Tail(s) ELSE s, 0)

\* str::parse::<usize>().ok(): an optional "+", then one or more digits
ParseUsize(s) ==
    LET digits == IF s # <<>> /\ Head(s) = "+" THEN Tail(s) ELSE s
    IN  IF digits = <<>> THEN NoIndex ELSE ParseDigits(digits, 0)

\* device_id.strip_prefix("input_").and_then(|s| s.parse().ok())
ParseDeviceIndex(device_id) ==
    LET stripped == StripPrefix(device_id)
    IN  IF stripped.some THEN ParseUsize(stripped.rest) ELSE NoIndex

(***************************************************************************)
(* The host audio subsystem.  A device has a handle (dev), a name that may *)
(* fail to be retrieved, and the sample format of its default input        *)
(* config.  host.input_devices() yields the sequence `devices`.            *)
(***************************************************************************)
HostDevices ==
    << [dev |-> 1, named |-> TRUE,  name |-> "Mic",  sample_format |-> "F32"],
       [dev |-> 2, named |-> FALSE, name |-> "",     sample_format |-> "I16"],
       [dev |-> 3, named |-> TRUE,  name |-> "Line", sample_format |-> "U16"],
       [dev |-> 4, named |-> TRUE,  name |-> "Cam",  sample_format |-> "U8"] >>

DeviceHandles == { HostDevices[k].dev : k \in 1..Len(HostDevices) }

\* what input_devices() enumerates when the devices with the handles `plugged`
\* are attached: they keep their order
Attached(plugged) == SelectSeq(HostDevices, LAMBDA d : d.dev \in plugged)

Handles(input_devices) == { input_devices[k].dev : k \in 1..Len(input_devices) }

\* the hosts whose device set stays as it is during a run: one capture device
\* of each supported sample format, next to one of an unsupported format
Hosts == { Attached({dev, 4}) : dev \in {1, 2, 3} }

\* the device ids a caller may pass: every id a listing can hold, one index past
\* the end of the longest enumeration, and malformed strings
DeviceIds ==
    { FormatId(k) : k \in 0..Len(HostDevices) }
    \cup { InputPrefix \o t : t \in { <<>>, <<"+", "1">>, <<"-", "1">>, <<"1", "x">>,
                                      <<"1", "0">> } }
    \cup { <<"1">>, <<"o", "u", "t", "p", "u", "t", "_", "0">> }

SeqsUpTo(S, n) == UNION { [1..k -> S] : k \in 0..n }

\* the raw samples a device may deliver in one block, by sample format
RawSamples(sample_format) ==
    CASE sample_format = "F32" -> {NaN, 16384}
      [] sample_format = "I16" -> {-32768, 32767}
      [] sample_format = "U16" -> {0, 65535}

Blocks(sample_format) == SeqsUpTo(RawSamples(sample_format), MaxBlock)

(***************************************************************************)
(* State.                                                                  *)
(*   state    AudioState: the two Arc<Mutex<f32>> cells                    *)
(*   devices  what host.input_devices() enumerates now                     *)
(*   streams  the streams kept alive by std::mem::forget, in the order     *)
(*            they were opened; a stream's id is its position              *)
(*   session  per slot, the id of the stream of the last successful start  *)
(*            since the last stop; 0 when the slot is Idle                 *)
(*   result   what the last command returned, or the last callback wrote   *)
(***************************************************************************)
VolumeField(is_primary) ==
    IF is_primary THEN "primary_volume" ELSE "secondary_volume"

Ret(op, is_primary, ok, value, err, listing, stream, calls) ==
    [op |-> op, is_primary |-> is_primary, ok |-> ok, value |-> value, err |-> err,
     listing |-> listing, stream |-> stream, calls |-> calls]

\* The threads of the program, followed step by step in the lock-level
\* specification below: the main thread, which runs the commands one at a time
\* (result is what a command hands back when it runs as one step, and is not
\* followed there), and the audio thread of each stream, which runs its callbacks.
\* A thread is at rest, or inside an operation on a slot at position pc,
\* holding the guards of the cells in held, with the operation's f32 in value.
MainThread == 0

Threads == {MainThread} \cup 1..MaxAudioThreads

IdleThread ==
    [op |-> "idle", is_primary |-> TRUE, pc |-> "done", held |-> {}, value |-> 0,
     args |-> <<>>]

\* the commands and callbacks below run as one step each: no thread is seen
\* inside one
AllIdle == threads = [t \in Threads |-> IdleThread]

Init ==
    /\ state = [primary_volume |-> 0, secondary_volume |-> 0]
    /\ devices \in Hosts
    /\ streams = <<>>
    /\ session = [is_primary \in BOOLEAN |-> 0]
    /\ result = Ret("none", TRUE, TRUE, 0, "", <<>>, 0, <<>>)
    /\ AllIdle

(***************************************************************************)
(* get_audio_devices                                                       *)
(***************************************************************************)
\* a listing that numbers the devices it lists, not the devices it enumerates
EnumerateCompact(input_devices, index) ==
    LET named == SelectSeq(SubSeq(input_devices, index + 1, Len(input_devices)),
                           LAMBDA d : d.named)
    IN  [k \in 1..Len(named) |-> [name |-> named[k].name, id |-> FormatId(k - 1)]]

\* for (index, device) in input_devices.enumerate() { if let Ok(name) ... push }
RECURSIVE EnumerateFrom(_, _)
EnumerateFrom(input_devices, index) ==
    IF index >= Len(input_devices) THEN <<>>
    ELSE LET device == input_devices[index + 1]
         IN  (IF device.named
              THEN <<[name |-> device.name, id |-> FormatId(index)]>>
              ELSE <<>>)
             \o EnumerateFrom(input_devices, index + 1)

get_audio_devices(enumOk) ==
    /\ result' = IF enumOk
                 THEN Ret("get_audio_devices", TRUE, TRUE, 0, "",
                          EnumerateFrom(devices, 0), 0, <<"input_devices">>)
                 ELSE Ret("get_audio_devices", TRUE, FALSE, 0,
                          "Failed to enumerate input devices", <<>>, 0,
                          <<"input_devices">>)
    /\ UNCHANGED <<state, devices, streams, session, threads>>

(***************************************************************************)
(* start_monitoring                                                        *)
(***************************************************************************)
SupportedFormats == {"F32", "I16", "U16"}

\* what the host may answer during one start_monitoring: every call succeeds
\* ("none"), or input_devices, default_input_config, build_input_stream or play
\* fails
HostFaults == {"none", "input_devices", "default_input_config",
               "build_input_stream", "play"}

\* the error start_monitoring returns, "" for Ok(())
StartError(device_id, fault) ==
    LET device_index == ParseDeviceIndex(device_id)
    IN  IF device_index = NoIndex THEN "Invalid device ID"
        ELSE IF fault = "input_devices" THEN "Failed to enumerate devices"
        ELSE IF device_index >= Len(devices) THEN "Device not found"
        ELSE IF fault = "default_input_config"
             THEN "Failed to get default input config"
        ELSE IF devices[device_index + 1].sample_format \notin SupportedFormats
             THEN "Unsupported sample format"
        ELSE IF fault = "build_input_stream" THEN "Failed to build input stream"
        ELSE IF fault = "play" THEN "Failed to play stream"
        ELSE ""

\* the host answers that decide what start_monitoring(device_id, ..) returns: a
\* call the function does not reach cannot fail
FaultsReached(device_id) ==
    {"none"} \cup { fault \in HostFaults :
                      StartError(device_id, fault) # StartError(device_id, "none") }

\* the host calls start_monitoring has made when it returns err
StartCalls(err) ==
    CASE err = "Invalid device ID" -> <<>>
      [] err \in {"Failed to enumerate devices", "Device not found"} ->
            <<"input_devices">>
      [] err \in {"Failed to get default input config", "Unsupported sample format"} ->
            <<"input_devices", "default_input_config">>
      [] err = "Failed to build input stream" ->
            <<"input_devices", "default_input_config", "build_input_stream">>
      [] err = "Failed to play stream" ->
            <<"input_devices", "default_input_config", "build_input_stream", "play",
              "drop">>
      [] err = "" ->
            <<"input_devices", "default_input_config", "build_input_stream", "play",
              "forget">>

\* a stream whose callback captured the primary cell whatever is_primary says
NewStreamPrimary(is_primary, device) ==
    [is_primary |-> TRUE, sample_format |-> device.sample_format]

\* the stream start_monitoring builds: its callback captures the slot's cell and
\* converts from the device's sample format
NewStream(is_primary, device) ==
    [is_primary |-> is_primary, sample_format |-> device.sample_format]

\* a start that forgets the stream before it plays it: a stream whose play()
\* failed stays open
KeptStreamsLeak(stream, err) ==
    IF err \in {"", "Failed to play stream"} THEN Append(streams, stream) ELSE streams

\* the live streams when start_monitoring returns err: std::mem::forget keeps the
\* stream of a successful start; `?` drops a stream whose play() failed
KeptStreams(stream, err) ==
    IF err = "" THEN Append(streams, stream) ELSE streams

start_monitoring(device_id, is_primary, fault) ==
    LET err == StartError(device_id, fault)
        built == err \in {"", "Failed to play stream"}
        stream == IF built
                  THEN NewStream(is_primary, devices[ParseDeviceIndex(device_id) + 1])
                  ELSE [is_primary |-> is_primary, sample_format |-> ""]
    IN  /\ err = "" => Len(streams) < MaxStreams
        /\ streams' = KeptStreams(stream, err)
        /\ session' = IF err = ""
                      THEN [session EXCEPT ![is_primary] = Len(streams) + 1]
                      ELSE session
        /\ result' = Ret("start_monitoring", is_primary, err = "", 0, err, <<>>,
                         IF err = "" THEN Len(streams) + 1 ELSE 0, StartCalls(err))
        /\ UNCHANGED <<state, devices, threads>>

(***************************************************************************)
(* The data callback of stream i, called by the audio subsystem with one   *)
(* block of raw samples: normalise, calculate_rms, store under the lock.   *)
(***************************************************************************)
RECURSIVE NormalizeBlock(_, _)
NormalizeBlock(sample_format, data) ==
    IF data = <<>> THEN <<>>
    ELSE <<NormalizeSample(sample_format, Head(data))>>
         \o NormalizeBlock(sample_format, Tail(data))

\* a store that keeps the larger of the old and the new value (peak hold)
StoreVolumePeak(is_primary, rms) ==
    [state EXCEPT ![VolumeField(is_primary)] =
        IF rms = NaN \/ @ > rms THEN @ ELSE rms]

\* *volume.lock().unwrap() = rms
StoreVolume(is_primary, rms) == [state EXCEPT ![VolumeField(is_primary)] = rms]

data_callback(i, data) ==
    LET stream == streams[i]
        rms == calculate_rms(NormalizeBlock(stream.sample_format, data))
    IN  /\ state' = StoreVolume(stream.is_primary, rms)
        /\ result' = Ret("data_callback", stream.is_primary, TRUE, rms, "", <<>>, i,
                         <<>>)
        /\ UNCHANGED <<devices, streams, session, threads>>

(***************************************************************************)
(* The error callback of stream i, called by the audio subsystem when the  *)
(* running stream reports an error: err_fn prints the error.               *)
(***************************************************************************)
\* an error callback that ends the session: it stores 0.0 in the slot's cell
AfterStreamErrorReset(i) == StoreVolume(streams[i].is_primary, 0)

\* the cells after err_fn has run: eprintln! touches none of them
AfterStreamError(i) == state

error_callback(i) ==
    /\ state' = AfterStreamError(i)
    /\ result' = Ret("error_callback", streams[i].is_primary, TRUE, 0,
                     "an error occurred on stream", <<>>, i, <<>>)
    /\ UNCHANGED <<devices, streams, session, threads>>

(***************************************************************************)
(* stop_monitoring and get_volume                                          *)
(***************************************************************************)
\* a get_volume that reads the cell and clears it
get_volume_clears(is_primary) ==
    /\ result' = Ret("get_volume", is_primary, TRUE,
                     Percentage(state[VolumeField(is_primary)]), "", <<>>, 0, <<>>)
    /\ state' = StoreVolume(is_primary, 0)
    /\ UNCHANGED <<devices, streams, session, threads>>

\* a stop_monitoring that also releases the streams of its slot
stop_monitoring_releases(is_primary) ==
    /\ state' = StoreVolume(is_primary, 0)
    /\ session' = [session EXCEPT ![is_primary] = 0]
    /\ streams' = SelectSeq(streams, LAMBDA s : s.is_primary # is_primary)
    /\ result' = Ret("stop_monitoring", is_primary, TRUE, 0, "", <<>>, 0, <<>>)
    /\ UNCHANGED <<devices, threads>>

stop_monitoring(is_primary) ==
    /\ state' = StoreVolume(is_primary, 0)
    /\ session' = [session EXCEPT ![is_primary] = 0]
    /\ result' = Ret("stop_monitoring", is_primary, TRUE, 0, "", <<>>, 0, <<>>)
    /\ UNCHANGED <<devices, streams, threads>>

get_volume(is_primary) ==
    /\ result' = Ret("get_volume", is_primary, TRUE,
                     Percentage(state[VolumeField(is_primary)]), "", <<>>, 0, <<>>)
    /\ UNCHANGED <<state, devices, streams, session, threads>>

(***************************************************************************)
(* The environment: the set of input devices changes (plug, unplug).       *)
(***************************************************************************)
Plug(dev) ==
    /\ dev \notin Handles(devices)
    /\ devices' = Attached(Handles(devices) \cup {dev})
    /\ UNCHANGED <<state, streams, session, result, threads>>

Unplug(dev) ==
    /\ dev \in Handles(devices)
    /\ devices' = Attached(Handles(devices) \ {dev})
    /\ UNCHANGED <<state, streams, session, result, threads>>

Command ==
    \/ \E enumOk \in BOOLEAN : get_audio_devices(enumOk)
    \/ \E device_id \in DeviceIds, is_primary \in BOOLEAN :
          \E fault \in FaultsReached(device_id) :
            start_monitoring(device_id, is_primary, fault)
    \/ \E is_primary \in BOOLEAN : stop_monitoring(is_primary)
    \/ \E is_primary \in BOOLEAN : get_volume(is_primary)

Callback ==
    \E i \in 1..Len(streams) : \E data \in Blocks(streams[i].sample_format) :
        data_callback(i, data)

StreamError == \E i \in 1..Len(streams) : error_callback(i)

\* the commands and the callbacks, on a host whose devices stay as they are
Next == Command \/ Callback \/ StreamError

Spec == Init /\ [][Next]_vars

\* the commands that enumerate devices, on a host whose devices come and go;
\* resolution does not read is_primary, and the starts here are on the primary slot
InitDevices ==
    /\ state = [primary_volume |-> 0, secondary_volume |-> 0]
    /\ devices \in { Attached(plugged) : plugged \in SUBSET DeviceHandles }
    /\ streams = <<>>
    /\ session = [is_primary \in BOOLEAN |-> 0]
    /\ result = Ret("none", TRUE, TRUE, 0, "", <<>>, 0, <<>>)
    /\ AllIdle

NextDevices ==
    \/ \E enumOk \in BOOLEAN : get_audio_devices(enumOk)
    \/ \E device_id \in DeviceIds, is_primary \in {TRUE} :
          \E fault \in FaultsReached(device_id) :
            start_monitoring(device_id, is_primary, fault)
    \/ \E dev \in DeviceHandles : Plug(dev)
    \/ \E dev \in DeviceHandles : Unplug(dev)

SpecDevices == InitDevices /\ [][NextDevices]_vars

(***************************************************************************)
(* read_wav_file.  The file at file_path is what the reader finds there:   *)
(* whether it opens, its header (sample format, bits per sample, channels, *)
(* sample rate), its interleaved raw samples, and the position of the      *)
(* first sample whose read fails (0: every sample reads).  A float sample  *)
(* is a count of units of 1/Scale like every other f32 of the model.       *)
(***************************************************************************)
MaxWavSamples == 3

I24_SCALE == 8388608
I32_MAX == 2147483647

\* the header combinations of sample format and bits per sample
WavEncodings ==
    { <<"Float", 32>>, <<"Int", 8>>, <<"Int", 16>>, <<"Int", 24>>, <<"Int", 32>> }

WavChannels == {1, 2, 3}

WavSampleRates == {8000, 44100}

\* the raw samples a file of an encoding may hold
WavRawSamples(encoding) ==
    CASE encoding = <<"Float", 32>> -> {NaN, -16384, 32767}
      [] encoding = <<"Int", 8>>    -> {0, 127}
      [] encoding = <<"Int", 16>>   -> {-32768, 0, 32767}
      [] encoding = <<"Int", 24>>   -> {-8388608, 4194304}
      [] encoding = <<"Int", 32>>   -> {-I32_MAX, I32_MAX}

WavFileOf(opens, encoding, channels, sample_rate, data, fail_at) ==
    [opens |-> opens, sample_format |-> encoding[1], bits_per_sample |-> encoding[2],
     channels |-> channels, sample_rate |-> sample_rate, data |-> data,
     fail_at |-> fail_at]

\* a path that does not open as a WAV file
MissingFile == WavFileOf(FALSE, <<"Int", 16>>, 1, 8000, <<>>, 0)

WavFiles ==
    {MissingFile} \cup
    UNION { UNION { { WavFileOf(TRUE, encoding, channels, sample_rate, data, fail_at) :
                        channels \in WavChannels, sample_rate \in WavSampleRates,
                        fail_at \in 0..Len(data) } :
                    data \in SeqsUpTo(WavRawSamples(encoding), MaxWavSamples) } :
            encoding \in WavEncodings }

\* sample as f32 / divisor for a divisor of (I16_MAX + 1) * shift, computed in
\* two parts so that no intermediate exceeds 32 bits
NormalizeWide(s, shift) ==
    DivRound((s \div shift) * Scale + ((s % shift) * Scale) \div shift, I16_MAX + 1)

\* the f32 one raw sample of the file becomes
DecodeSample(file, s) ==
    CASE file.sample_format = "Float" -> s
      [] file.bits_per_sample = 16 -> DivRound(s * Scale, I16_MAX)
      [] file.bits_per_sample = 24 -> NormalizeWide(s, I24_SCALE \div (I16_MAX + 1))
      [] file.bits_per_sample = 32 -> NormalizeWide(s, I32_MAX \div (I16_MAX + 1) + 1)

\* a reader that skips the samples it cannot read
WavErrorLenient(file) ==
    IF ~file.opens THEN "Failed to open WAV file"
    ELSE IF file.sample_format = "Int" /\ file.bits_per_sample \notin {16, 24, 32}
    THEN "Unsupported bit depth"
    ELSE ""

\* the error the ? operators of read_wav_file return with, "" when there is none
WavError(file) ==
    IF ~file.opens THEN "Failed to open WAV file"
    ELSE IF file.sample_format = "Int" /\ file.bits_per_sample \notin {16, 24, 32}
    THEN "Unsupported bit depth"
    ELSE IF file.fail_at # 0 THEN "Failed to read samples"
    ELSE ""

\* samples: every raw sample of the file, decoded in order
ReadSamples(file) == [k \in 1..Len(file.data) |-> DecodeSample(file, file.data[k])]

\* (a + b) / 2.0
Mean(a, b) == IF a = NaN \/ b = NaN THEN NaN ELSE DivRound(a + b, 2)

\* a downmix over chunks_exact(2): the trailing incomplete frame is dropped
DownmixExact(samples) ==
    [k \in 1..(Len(samples) \div 2) |-> Mean(samples[2 * k - 1], samples[2 * k])]

\* samples.chunks(2).map(|chunk| (chunk[0] + chunk.get(1).unwrap_or(&0.0)) / 2.0)
Downmix(samples) ==
    [k \in 1..((Len(samples) + 1) \div 2) |->
        Mean(samples[2 * k - 1], IF 2 * k <= Len(samples) THEN samples[2 * k] ELSE 0)]

\* (len as f32 / sample_rate as f32) * 1000.0, in units of 1/Scale ms
DurationMs(len, sample_rate) == DivRound(len * 1000 * Scale, sample_rate)

\* the command waiting to be handled, and what it returns
WavCall(file) == [op |-> "invoke", command |-> "read_wav_file", file |-> file]

WavRet(file, ok, err, samples, sample_rate, duration_ms) ==
    [op |-> "read_wav_file", file |-> file, ok |-> ok, err |-> err,
     samples |-> samples, sample_rate |-> sample_rate, duration_ms |-> duration_ms]

read_wav_file(file) ==
    /\ result = WavCall(file)
    /\ LET err == WavError(file)
           samples == ReadSamples(file)
           mono_samples == IF file.channels = 2 THEN Downmix(samples) ELSE samples
       IN  result' = IF err # ""
                     THEN WavRet(file, FALSE, err, <<>>, 0, 0)
                     ELSE WavRet(file, TRUE, "", mono_samples, file.sample_rate,
                                 DurationMs(Len(mono_samples), file.sample_rate))
    /\ UNCHANGED <<state, devices, streams, session, threads>>

(***************************************************************************)
(* The decoder alone: one read_wav_file call on any of the files.          *)
(***************************************************************************)
InitWav ==
    /\ state = [primary_volume |-> 0, secondary_volume |-> 0]
    /\ devices = <<>>
    /\ streams = <<>>
    /\ session = [p \in BOOLEAN |-> 0]
    /\ result \in { WavCall(file) : file \in WavFiles }
    /\ AllIdle

NextWav == result.op = "invoke" /\ read_wav_file(result.file)

SpecWav == InitWav /\ [][NextWav]_vars

(***************************************************************************)
(* The same operations step by step, down to the lock of each cell: the    *)
(* guard returned by lock() is a temporary of the statement that reads or  *)
(* writes the f32, and is dropped at the end of that statement.            *)
(***************************************************************************)
InOp(t, op, is_primary, pc, value, args) ==
    [threads EXCEPT ![t] = [op |-> op, is_primary |-> is_primary, pc |-> pc,
                            held |-> {}, value |-> value, args |-> args]]

\* the thread holding the lock of a cell, if any
Holders(is_primary) == { t \in Threads : is_primary \in threads[t].held }

\* the device id and the host answers start_monitoring is called with here:
\* the first device, which starts, or whose play() fails
LockDeviceIds == { FormatId(0) }

LockFaults == {"none", "play"}

\* the blocks a stream delivers here: half-scale samples, up to MaxBlock of them
LockBlocks == { data \in Blocks("F32") : Len(data) > 0 /\ \A k \in 1..Len(data) : data[k] = 16384 }

invoke_start_monitoring(device_id, is_primary, fault) ==
    /\ threads[MainThread] = IdleThread
    /\ StartError(device_id, fault) = "" => Len(streams) < MaxAudioThreads
    /\ threads' = InOp(MainThread, "start_monitoring", is_primary, "host", 0,
                       <<device_id, fault>>)
    /\ UNCHANGED <<state, devices, streams, session, result>>

\* the next host call of start_monitoring; play() on a built stream makes it live
host_call ==
    LET self == threads[MainThread]
        err == StartError(self.args[1], self.args[2])
        calls == StartCalls(err)
        stream == NewStream(self.is_primary, devices[ParseDeviceIndex(self.args[1]) + 1])
    IN  /\ self.op = "start_monitoring"
        /\ self.value < Len(calls)
        /\ threads' = [threads EXCEPT ![MainThread].value = @ + 1]
        /\ streams' = IF calls[self.value + 1] = "play"
                      THEN KeptStreams(stream, err) ELSE streams
        /\ UNCHANGED <<state, devices, session, result>>

return_start_monitoring ==
    LET self == threads[MainThread]
        err == StartError(self.args[1], self.args[2])
    IN  /\ self.op = "start_monitoring"
        /\ self.value = Len(StartCalls(err))
        /\ session' = IF err = ""
                      THEN [session EXCEPT ![self.is_primary] = Len(streams)]
                      ELSE session
        /\ threads' = [threads EXCEPT ![MainThread] = IdleThread]
        /\ UNCHANGED <<state, devices, streams, result>>

invoke_stop_monitoring(is_primary) ==
    /\ threads[MainThread] = IdleThread
    /\ threads' = InOp(MainThread, "stop_monitoring", is_primary, "lock", 0, <<>>)
    /\ UNCHANGED <<state, devices, streams, session, result>>

invoke_get_volume(is_primary) ==
    /\ threads[MainThread] = IdleThread
    /\ threads' = InOp(MainThread, "get_volume", is_primary, "lock", 0, <<>>)
    /\ UNCHANGED <<state, devices, streams, session, result>>

\* the audio thread of stream i enters the data callback and computes the RMS
invoke_data_callback(i, data) ==
    /\ threads[i] = IdleThread
    /\ threads' = InOp(i, "data_callback", streams[i].is_primary, "lock",
                       calculate_rms(NormalizeBlock(streams[i].sample_format, data)),
                       <<>>)
    /\ UNCHANGED <<state, devices, streams, session, result>>

\* volume.lock().unwrap(): blocks while another thread holds the guard
lock_volume(t) ==
    /\ threads[t].pc = "lock"
    /\ Holders(threads[t].is_primary) = {}
    /\ threads' = [threads EXCEPT ![t].pc = "locked",
                                  ![t].held = @ \cup {threads[t].is_primary}]
    /\ UNCHANGED <<state, devices, streams, session, result>>

\* the read or the write of the f32 behind the guard
access_volume(t) ==
    LET self == threads[t]
    IN  /\ self.pc = "locked"
        /\ threads' = [threads EXCEPT ![t].pc = "unlock",
                                      ![t].value = IF self.op = "get_volume"
                                                   THEN state[VolumeField(self.is_primary)] ELSE @]
        /\ state' = IF self.op = "get_volume" THEN state
                    ELSE StoreVolume(self.is_primary, self.value)
        /\ session' = IF self.op = "stop_monitoring"
                      THEN [session EXCEPT ![self.is_primary] = 0] ELSE session
        /\ UNCHANGED <<devices, streams, result>>

\* a guard that is leaked instead of dropped
HeldAfterUnlockLeaked(t) == threads[t].held

\* the guards the thread holds once the statement's temporary is dropped
HeldAfterUnlock(t) == threads[t].held \ {threads[t].is_primary}

\* end of the statement: the guard is dropped; a callback returns here
unlock_volume(t) ==
    /\ threads[t].pc = "unlock"
    /\ threads' = [threads EXCEPT ![t] =
                      IF threads[t].op = "data_callback"
                      THEN [IdleThread EXCEPT !.held = HeldAfterUnlock(t)]
                      ELSE [@ EXCEPT !.pc = "return", !.held = HeldAfterUnlock(t)]]
    /\ UNCHANGED <<state, devices, streams, session, result>>

\* stop_monitoring returns Ok(()), get_volume Ok((vol * 100.0).min(100.0)) of
\* the vol it read: the value goes to the caller and the main thread is free
return_command ==
    LET self == threads[MainThread]
    IN  /\ self.pc = "return"
        /\ threads' = [threads EXCEPT ![MainThread] =
                          [IdleThread EXCEPT !.held = self.held]]
        /\ UNCHANGED <<state, devices, streams, session, result>>

NextLocks ==
    \/ \E device_id \in LockDeviceIds, is_primary \in BOOLEAN :
          \E fault \in LockFaults :
            invoke_start_monitoring(device_id, is_primary, fault)
    \/ host_call
    \/ return_start_monitoring
    \/ \E is_primary \in BOOLEAN : invoke_stop_monitoring(is_primary)
    \/ \E is_primary \in BOOLEAN : invoke_get_volume(is_primary)
    \/ \E i \in 1..Len(streams) : \E data \in LockBlocks : invoke_data_callback(i, data)
    \/ \E t \in Threads : lock_volume(t)
    \/ \E t \in Threads : access_volume(t)
    \/ \E t \in Threads : unlock_volume(t)
    \/ return_command

\* A thread inside an operation takes its next step; a thread waiting for a
\* lock that is free again and again gets it (the lock is held for one f32
\* access at a time, and callbacks come one block interval apart).
FairLocks ==
    /\ WF_vars(host_call) /\ WF_vars(return_start_monitoring) /\ WF_vars(return_command)
    /\ \A t \in Threads : /\ WF_vars(access_volume(t))
                          /\ WF_vars(unlock_volume(t))
                          /\ SF_vars(lock_volume(t))

\* a host with the f32 microphone attached
InitLocks ==
    /\ state = [primary_volume |-> 0, secondary_volume |-> 0]
    /\ devices = Attached({1, 4})
    /\ streams = <<>>
    /\ session = [is_primary \in BOOLEAN |-> 0]
    /\ result = Ret("none", TRUE, TRUE, 0, "", <<>>, 0, <<>>)
    /\ AllIdle

SpecLocks == InitLocks /\ [][NextLocks]_vars /\ FairLocks

(***************************************************************************)
(* Properties                                                              *)
(***************************************************************************)
Cell(is_primary) == state[VolumeField(is_primary)]

StreamsOf(is_primary) == { i \in 1..Len(streams) : streams[i].is_primary = is_primary }

Idle(is_primary) == session[is_primary] = 0

PercentCap == 100 * Scale

\* C1: once stop(slot) has returned, and until the next successful start(slot)
\* (the slot is Idle), every get_volume(slot) returns 0.0: no callback of a stream
\* opened before the stop writes its result over the 0.0 that stop stored.
C1_StoppedSlotReadsZero ==
    (result.op = "get_volume" /\ Idle(result.is_primary)) => result.value = 0

\* C2: after any sequence of starts and stops each slot has at most one open
\* capture stream bound to it (a second start disposes of the first stream).
C2_AtMostOneStreamPerSlot ==
    \A is_primary \in BOOLEAN : Cardinality(StreamsOf(is_primary)) <= 1

\* C3: while a slot is Active every write to its cell comes from the callback of
\* the stream of the last successful start (after two starts: the second stream).
C3_CurrentStreamSoleWriter ==
    (result.op = "data_callback" /\ ~Idle(result.is_primary))
        => result.stream = session[result.is_primary]

\* C4: get_volume always succeeds with a value in [0.0, 100.0], whatever the
\* callbacks, starts and stops before it did; for a slot on which no start ever
\* succeeded (a fortiori: was never called) it returns 0.0.
C4_VolumeInRange ==
    result.op = "get_volume" =>
        /\ result.ok
        /\ 0 <= result.value /\ result.value <= PercentCap
        /\ StreamsOf(result.is_primary) = {} => result.value = 0

\* a get_volume that returned the cap for a cell holding more than 1.0
C4_Witness ==
    /\ result.op = "get_volume"
    /\ result.value = PercentCap
    /\ Cell(result.is_primary) > Scale

\* the display mapping min(v * 100, 100) of a cell value v
Mapped(v) ==
    IF v = NaN THEN PercentCap
    ELSE IF v * 100 <= PercentCap THEN v * 100 ELSE PercentCap

\* C5: get_volume(slot) returns min(v * 100, 100) of the value v most recently
\* committed to the slot's cell (last write wins): a callback's write is in the
\* cell once the callback has run, the cell changes only by a callback of that
\* slot or a stop of that slot, and get_volume maps what the cell then holds.
C5_ReadsLastCommitted ==
    [][ /\ result'.op = "data_callback"
            => state'[VolumeField(result'.is_primary)] = result'.value
        /\ result'.op = "get_volume"
            => result'.value = Mapped(state'[VolumeField(result'.is_primary)])
        /\ \A is_primary \in BOOLEAN :
              state'[VolumeField(is_primary)] # state[VolumeField(is_primary)]
                => /\ result'.op \in {"data_callback", "stop_monitoring"}
                   /\ result'.is_primary = is_primary
      ]_vars

\* an Active slot with two streams, read as 50 % after a callback wrote 0.5
C5_Witness ==
    /\ result.op = "get_volume"
    /\ ~Idle(result.is_primary)
    /\ Cardinality(StreamsOf(result.is_primary)) = 2
    /\ result.value = 16384 * 100
    /\ result.value < PercentCap

\* C6: stop always succeeds, and stop on a slot that is Idle (stopped before, or
\* never started) leaves the state as it was, the cell at 0.0.
C6_StopOnIdleSlotChangesNothing ==
    [][ \A is_primary \in BOOLEAN :
          (stop_monitoring(is_primary) /\ Idle(is_primary))
            => /\ result'.ok
               /\ Cell(is_primary) = 0
               /\ state' = state /\ streams' = streams /\ session' = session
      ]_vars

StartErrors ==
    {"Invalid device ID", "Failed to enumerate devices", "Device not found",
     "Failed to get default input config", "Unsupported sample format",
     "Failed to build input stream", "Failed to play stream"}

\* C7: a failed start returns one of the errors of start_monitoring and leaves
\* the slot as it was: no stream stays open that was not open before (also when
\* the stream was built and play() failed), and the cells and the sessions are
\* unchanged.
C7_FailedStartLeavesSlot ==
    [][ (result'.op = "start_monitoring" /\ ~result'.ok)
          => /\ result'.err \in StartErrors
             /\ streams' = streams
             /\ state' = state
             /\ session' = session
      ]_vars

\* a start whose stream was built and failed to play, on a slot never started
C7_Witness ==
    /\ result.op = "start_monitoring"
    /\ result.err = "Failed to play stream"
    /\ StreamsOf(result.is_primary) = {}
    /\ Idle(result.is_primary)

\* device_id is "input_", an optional "+", then the decimal digits of index k
\* (leading zeros allowed): the strings that denote the k-th device
Denotes(device_id, k) ==
    /\ Len(device_id) > Len(InputPrefix)
    /\ SubSeq(device_id, 1, Len(InputPrefix)) = InputPrefix
    /\ LET rest == SubSeq(device_id, Len(InputPrefix) + 1, Len(device_id))
           number == IF rest[1] = "+" THEN Tail(rest) ELSE rest
       IN  \E zeros \in 0..Len(number) :
              /\ \A z \in 1..zeros : number[z] = "0"
              /\ SubSeq(number, zeros + 1, Len(number)) = FormatUsize(k)

\* C8: start_monitoring with an id that is not input_<non-negative integer>, or
\* whose index is not below the number of enumerated devices, fails at
\* resolution: it returns "Invalid device ID" or "Device not found" (or the
\* enumeration's own failure), it has asked no device for its configuration and
\* built no stream, and streams and sessions are as before.
C8_BadIdFailsAtResolution ==
    [][ result'.op = "start_monitoring" =>
          \/ /\ ~result'.ok
             /\ result'.err \in {"Invalid device ID", "Device not found",
                                 "Failed to enumerate devices"}
             /\ \A n \in 1..Len(result'.calls) : result'.calls[n] = "input_devices"
             /\ streams' = streams /\ session' = session /\ state' = state
          \/ ~ \E device_id \in DeviceIds :
                 /\ ~ \E k \in 0..(Len(devices) - 1) : Denotes(device_id, k)
                 /\ \E fault \in FaultsReached(device_id) :
                       start_monitoring(device_id, result'.is_primary, fault)
      ]_vars

\* a start with an index past the end of a non-empty enumeration
C8_Witness ==
    /\ result.op = "start_monitoring"
    /\ result.err = "Device not found"
    /\ result.calls = <<"input_devices">>
    /\ Len(devices) > 0

\* the devices of one enumeration whose name can be retrieved, in order
Named(input_devices) == SelectSeq(input_devices, LAMBDA d : d.named)

\* C9: within one enumeration, the k-th device that get_audio_devices lists is
\* the k-th device with a name, the id listed for it is resolved by
\* start_monitoring (parse, then nth) to that same device, also when devices
\* without a name were skipped, and the ids of one listing are pairwise distinct.
C9_IdsRoundTrip ==
    [][ (result'.op = "get_audio_devices" /\ result'.ok /\ devices' = devices) =>
          LET listing == result'.listing
              named == Named(devices)
          IN  /\ Len(listing) = Len(named)
              /\ \A k \in 1..Len(listing) :
                    LET device_index == ParseDeviceIndex(listing[k].id)
                    IN  /\ device_index # NoIndex
                        /\ device_index < Len(devices)
                        /\ devices[device_index + 1] = named[k]
                        /\ listing[k].name = named[k].name
                        /\ StartError(listing[k].id, "none")
                              \notin {"Invalid device ID", "Device not found"}
              /\ \A j, k \in 1..Len(listing) : j # k => listing[j].id # listing[k].id
      ]_vars

\* a listing of the current enumeration that skipped a device without a name
\* standing before a listed one
C9_Witness ==
    /\ result.op = "get_audio_devices" /\ result.ok
    /\ Len(result.listing) = Len(Named(devices))
    /\ Len(result.listing) >= 2
    /\ \E k \in 1..Len(result.listing) :
          /\ ParseDeviceIndex(result.listing[k].id) > k - 1
          /\ devices[ParseDeviceIndex(result.listing[k].id) + 1].name
                = result.listing[k].name

\* C10: the slots are independent: a start, stop, get_volume or callback of one
\* slot, and a listing, leave the other slot's cell, session and streams as they
\* were.
C10_SlotsIndependent ==
    [][ \A is_primary \in BOOLEAN :
          (result'.is_primary # is_primary \/ result'.op = "get_audio_devices")
            => /\ state'[VolumeField(is_primary)] = state[VolumeField(is_primary)]
               /\ session'[is_primary] = session[is_primary]
               /\ { streams'[i] : i \in { j \in 1..Len(streams') :
                                           streams'[j].is_primary = is_primary } }
                  = { streams[i] : i \in StreamsOf(is_primary) }
               /\ Cardinality({ j \in 1..Len(streams') :
                                  streams'[j].is_primary = is_primary })
                  = Cardinality(StreamsOf(is_primary))
      ]_vars

\* both slots Active, their cells holding different non-zero values
C10_Witness ==
    /\ ~Idle(TRUE) /\ ~Idle(FALSE)
    /\ Cell(TRUE) # 0 /\ Cell(FALSE) # 0
    /\ Cell(TRUE) # Cell(FALSE)

\* C11: an error that a started stream reports later does not stop the session
\* and does not touch the cells: the slot stays Active, the stream stays open,
\* and a get_volume that follows the error returns the value committed before it.
C11_StreamErrorChangesNothing ==
    [][ /\ result'.op = "error_callback"
            => /\ state' = state
               /\ session' = session
               /\ streams' = streams
        /\ (result.op = "error_callback" /\ result'.op = "get_volume"
              /\ result'.is_primary = result.is_primary)
            => result'.value = Mapped(Cell(result.is_primary))
      ]_vars

\* an error reported on the stream of an Active slot whose cell holds 0.5
C11_Witness ==
    /\ result.op = "error_callback"
    /\ session[result.is_primary] = result.stream
    /\ Cell(result.is_primary) = 16384

\* the call of read_wav_file has returned
Decoded == result.op = "read_wav_file"

\* C12: a file whose channel count is neither 1 nor 2 is refused: read_wav_file
\* returns an error and no WavData for it.
C12_OtherChannelCountsRefused ==
    (Decoded /\ result.file.opens /\ result.file.channels \notin {1, 2}) => ~result.ok

\* C13: every signed 16-bit sample s is normalised to s / 32767 inside
\* [-1.0, 1.0], and 0 to 0.0 (seen on a decoded one-channel 16-bit file, whose
\* samples come back as normalised).
C13_Int16NormalisedIntoUnitRange ==
    (Decoded /\ result.ok /\ result.file.sample_format = "Int"
       /\ result.file.bits_per_sample = 16 /\ result.file.channels = 1)
    => \A k \in 1..Len(result.samples) :
          /\ result.samples[k] >= -Scale
          /\ result.samples[k] <= Scale
          /\ result.file.data[k] = 0 => result.samples[k] = 0

\* C14: a two-channel file of n interleaved samples decodes to ceil(n / 2) mono
\* samples, the k-th the mean of the k-th frame with a missing right sample
\* taken as 0.0; a one-channel file's samples come back as decoded; duration_ms
\* is the mono length over the sample rate, in milliseconds.
C14_DownmixAveragesFrames ==
    (Decoded /\ result.ok) =>
        LET samples == ReadSamples(result.file)
            n == Len(samples)
            Right(k) == IF 2 * k <= n THEN samples[2 * k] ELSE 0
        IN  /\ result.file.channels = 2 =>
                /\ Len(result.samples) = (n + 1) \div 2
                /\ \A k \in 1..Len(result.samples) :
                      IF samples[2 * k - 1] = NaN \/ Right(k) = NaN
                      THEN result.samples[k] = NaN
                      ELSE 2 * result.samples[k] - (samples[2 * k - 1] + Right(k)) \in {0, 1}
            /\ result.file.channels = 1 => result.samples = samples
            /\ result.duration_ms
                   = DivRound(Len(result.samples) * 1000 * Scale, result.sample_rate)
            /\ result.sample_rate = result.file.sample_rate

\* a two-channel file with a trailing left sample decoded to two mono samples
C14_Witness ==
    /\ Decoded /\ result.ok
    /\ result.file.channels = 2
    /\ Len(result.file.data) = 3
    /\ Len(result.samples) = 2

\* C15: decoding is all or nothing: a file that does not open, an integer file
\* of an unsupported bit depth, or a file with a sample that fails to read gives
\* an error and no WavData; WavData comes back only when every sample was read.
C15_DecodeAllOrNothing ==
    Decoded =>
        /\ result.ok <=> /\ result.file.opens
                         /\ result.file.sample_format = "Int"
                               => result.file.bits_per_sample \in {16, 24, 32}
                         /\ result.file.fail_at = 0
        /\ ~result.ok => /\ result.err # ""
                         /\ result.samples = <<>>
        /\ result.ok => /\ result.err = ""
                        /\ Len(result.samples)
                             = IF result.file.channels = 2
                               THEN (Len(result.file.data) + 1) \div 2
                               ELSE Len(result.file.data)

\* a supported file whose second sample fails to read came back as an error
C15_Witness ==
    /\ Decoded /\ ~result.ok
    /\ result.file.bits_per_sample = 16
    /\ result.file.fail_at = 2
    /\ result.err = "Failed to read samples"

\* C17: only a data callback and stop_monitoring write a volume cell:
\* get_volume, get_audio_devices and start_monitoring, failed or successful,
\* leave both cells as they are, so right after a successful start the slot
\* still holds the value it held before.
C17_OnlyCallbacksAndStopWrite ==
    [][ /\ result'.op \in {"get_volume", "get_audio_devices", "start_monitoring"}
            => state' = state
        /\ state' # state => result'.op \in {"data_callback", "stop_monitoring"}
      ]_vars

\* a successful start on a slot whose cell holds 0.5, written by an earlier stream
C17_Witness ==
    /\ result.op = "start_monitoring" /\ result.ok
    /\ Cell(result.is_primary) = 16384
    /\ Cardinality(StreamsOf(result.is_primary)) = 2

\* a successful start_monitoring has just returned the new stream
Started == result'.op = "start_monitoring" /\ result'.ok /\ result' # result

\* C18: a started stream is never released: every step keeps the live streams
\* it finds, a successful start on a slot adds exactly one stream bound to that
\* slot and nothing else adds any, so the streams of a slot never get fewer and
\* number as many as the successful starts on it; stop_monitoring leaves the
\* live streams as they are.
C18_StreamsNeverReleased ==
    [][ /\ \A i \in 1..Len(streams) : i <= Len(streams') /\ streams'[i] = streams[i]
        /\ Len(streams') = Len(streams) + (IF Started THEN 1 ELSE 0)
        /\ Started => streams'[Len(streams')].is_primary = result'.is_primary
        /\ result'.op = "stop_monitoring" => streams' = streams
      ]_vars

\* stop_monitoring returned on a slot with two streams, both still live
C18_Witness ==
    /\ result.op = "stop_monitoring"
    /\ Cardinality(StreamsOf(result.is_primary)) = 2

\* a thread holds guards only between lock() and the end of the statement that
\* reads or writes the f32, and then only the guard of its own slot's cell
LockScope ==
    \A t \in Threads :
        threads[t].held # {} =>
            /\ threads[t].op \in {"get_volume", "stop_monitoring", "data_callback"}
            /\ threads[t].pc \in {"locked", "unlock"}
            /\ threads[t].held = {threads[t].is_primary}

\* no thread waits for a lock while it holds one, so no cycle of waiting threads
NoWaitWhileHolding ==
    \A t \in Threads : threads[t].pc = "lock" => threads[t].held = {}

\* a lock a thread waits for is free or held by a thread that is about to drop it
HolderProceeds ==
    \A t \in Threads : threads[t].pc = "lock" =>
        \A u \in Holders(threads[t].is_primary) :
            u # t /\ (ENABLED access_volume(u) \/ ENABLED unlock_volume(u))

InCommand == threads[MainThread].op \in {"get_volume", "stop_monitoring"}

====
